---- MODULE Spec2Model ----
(***************************************************************************)
(* Lumos-Trade: the server's market-data feed multiplexer and the order    *)
(* execution engine of src/server/exchange.ts.                             *)
(*                                                                         *)
(* Feed part: the module-level maps clients, marketConnections,            *)
(* connectionAttempts and simulationIntervals, the upstream (Binance)      *)
(* WebSocket objects with their pending events, and one action per         *)
(* callback of the event loop.                                             *)
(***************************************************************************)
EXTENDS Integers, Sequences, FiniteSets, TLC

\* ------------------------------------------------------------- bounds
NumClients == 2          \* downstream client sockets that may be connected
MaxSockets == 2          \* upstream WebSocket objects alive at the same time
MaxCount   == 3          \* cap of the connectionAttempts counter
MaxTime    == 61         \* last clock second a simulation tick may read
MaxDrift   == 300        \* cap of |close - basePrice| of the simulated candle
MaxVolume  == 130        \* cap of the volume of the simulated candle
MaxOrders  == 2          \* orders created on each of the two exchanges
MaxBrowserSockets == 2   \* WebSocket objects of the client transport alive at once
MaxTicks   == 2          \* ticks of one local generator of the client

\* ---------------------------------------------------------- constants
MAX_ATTEMPTS == 1
basePrice == 45000       \* market.includes('BTC') ? 45000
SecondsPerMinute == 60   \* new Date().getSeconds() === 0

Clients  == 1..NumClients
Markets  == {"BTC/USDT"}
NoMarket == "none"
NoSocket == 0
Slots    == 1..MaxSockets

VARIABLES
  clients,              \* Map<WebSocket, {markets}>: connected client -> set of markets
  marketConnections,    \* Map<string, WebSocket>: market -> upstream socket or NoSocket
  connectionAttempts,   \* Map<string, number>: market -> attempts (absent read as 0)
  simulationIntervals,  \* Map<string, Timeout>: the markets with a running interval
  sockets,              \* the upstream WebSocket objects: slot -> [market, state]
  notOpen,              \* connected clients whose readyState is no longer OPEN
  sent,                 \* the messages the last callback sent to clients, in order
  lastOp                \* the callback that ran last

feedVars == <<clients, marketConnections, connectionAttempts, simulationIntervals,
              sockets, notOpen, sent, lastOp>>

\* Order execution part: one call of executeTradeSignal, a step per await on
\* the exchange adapter (ccxt), whose calls succeed or throw.
VARIABLES
  exchange,             \* let exchange: "none" until initializeExchange, then the
                        \* ccxt.binance made with the API keys or without them
  tradePc,              \* where the call of executeTradeSignal stands
  tradeCall,            \* its arguments: signal, stopLoss, takeProfit (0: not given)
  adapterLog,           \* the calls made on the ccxt exchange, in order, with outcome
  mainOrder,            \* the locals of executeTradeSignal
  stopLossOrder,
  takeProfitOrder,
  tradeResult           \* what the call returned

tradeVars == <<exchange, tradePc, tradeCall, adapterLog, mainOrder, stopLossOrder,
               takeProfitOrder, tradeResult>>

\* What the feed callbacks, and the order functions, leave alone.
\* simulated candle generator: the lastCandle of the startSimulationForMarket
\* closure (the candle most recently broadcast)
VARIABLES lastCandle

candleVars == <<lastCandle>>

\* order calls: what each order id was last reported as, the simulated orders
\* made so far and the book of the real exchange
VARIABLES reported, simOrders, exchangeOrders

orderVars == <<reported, simOrders, exchangeOrders>>

\* HTTP order and signal endpoints: the request being handled, the position
\* of its handler, the result of the order call, the journal and the response
VARIABLES request, routePc, executed, trades, botLogs, response

routeVars == <<request, routePc, executed, trades, botLogs, response>>

\* client transport (the WebSocketService with connect / disconnect)
VARIABLES
  socket,               \* this.socket: a browser socket or NoSocket (null)
  isConnected,          \* this.isConnected
  reconnectTimer,       \* this.reconnectTimer is set (the timeout is pending)
  marketSubscriptions,  \* Map<string, Set<callback>>: its keys and their callbacks
  browserSockets,       \* the WebSocket objects: slot -> [state, byTimer, subs]
  outbox,               \* the messages the last step sent to the server, in order
  received              \* the markets whose callbacks the last step called

transportVars == <<socket, isConnected, reconnectTimer, marketSubscriptions,
                   browserSockets, outbox, received>>

\* client service in local-simulation mode (lib/webSocketService.ts)
VARIABLES
  subscriptions,        \* Map<string, Set<callback>>
  generators,           \* this.simulationIntervals: market -> the basePrice of the
                        \* interval's closure and the ticks it has made
  simulatedData         \* the data of the last tick and the callbacks called with it

generatorVars == <<subscriptions, generators, simulatedData>>

nonFeedVars == <<tradeVars, candleVars, orderVars, routeVars, transportVars, generatorVars>>

nonTradeVars == <<feedVars, candleVars, orderVars, routeVars, transportVars, generatorVars>>

nonCandleVars == <<feedVars, tradeVars, orderVars, routeVars, transportVars, generatorVars>>

\* an order call may initialize the exchange, nothing else of the rest
nonOrderVars == <<feedVars, tradeVars, candleVars, routeVars, transportVars, generatorVars>>

nonRouteVars == <<feedVars, tradeVars, candleVars, orderVars, transportVars, generatorVars>>

nonTransportVars == <<feedVars, tradeVars, candleVars, orderVars, routeVars, generatorVars>>

nonGeneratorVars == <<feedVars, tradeVars, candleVars, orderVars, routeVars, transportVars>>

vars == <<feedVars, tradeVars, candleVars, orderVars, routeVars, transportVars,
          generatorVars>>

\* ------------------------------------------------------------ helpers
FreeSocket == [market |-> NoMarket, state |-> "free"]

Op(name, c, m, s, g) == [op |-> name, client |-> c, market |-> m, socket |-> s, geo |-> g]

\* clients.forEach(sub => if (sub.markets.has(market)) ...)
Subscribers(cl, market) == {c \in DOMAIN cl : market \in cl[c]}

HasSubscribers(cl, market) == Subscribers(cl, market) # {}

\* subscription.markets.has(market) && client.readyState === WebSocket.OPEN
OpenSubscribers(cl, market) == Subscribers(cl, market) \ notOpen

\* A message for every subscribed client that is open, in the iteration order
\* of the map.  ev is the ordinal, within the running callback, of the send
\* statement that emits the event.
ToSubscribers(cl, market, type, source, ev) ==
  LET all == [c \in Clients |-> [to |-> c, type |-> type, market |-> market,
                                 source |-> source, ev |-> ev]]
  IN SelectSeq(all, LAMBDA msg : msg.to \in OpenSubscribers(cl, market))

broadcastSimulatedData(cl, market, ev) == ToSubscribers(cl, market, "kline", "simulation", ev)

broadcastToSubscribers(cl, market) == ToSubscribers(cl, market, "kline", "live", 1)

FreeSlot(socks) == CHOOSE s \in Slots : socks[s].state = "free" /\
                      \A t \in Slots : socks[t].state = "free" => s <= t

\* startSimulationForMarket with the fan-out delivering the second event
\* (the initial candle) ahead of the first (the notice).
startSimulationReordered(cl, market, intervals) ==
  IF market \in intervals
  THEN [intervals |-> intervals, msgs |-> <<>>]
  ELSE [intervals |-> intervals \cup {market},
        msgs |-> broadcastSimulatedData(cl, market, 2)
                   \o ToSubscribers(cl, market, "simulation_started", "none", 1)]

\* startSimulationForMarket: the new simulationIntervals and the messages sent.
startSimulationForMarket(cl, market, intervals) ==
  IF market \in intervals
  THEN [intervals |-> intervals, msgs |-> <<>>]
  ELSE [intervals |-> intervals \cup {market},
        msgs |-> ToSubscribers(cl, market, "simulation_started", "none", 1)
                   \o broadcastSimulatedData(cl, market, 2)]

\* connectToBinanceWebSocket: counts the attempt, then starts the simulation
\* or creates a new WebSocket.
connectToBinanceWebSocket(cl, market, socks) ==
  LET attempts == connectionAttempts[market]
      counted  == [connectionAttempts EXCEPT ![market] = attempts + 1]
  IN IF attempts >= MAX_ATTEMPTS
     THEN LET sim == startSimulationForMarket(cl, market, simulationIntervals)
          IN [attempts |-> counted, sockets |-> socks,
              intervals |-> sim.intervals, msgs |-> sim.msgs]
     ELSE [attempts |-> counted,
           sockets |-> [socks EXCEPT ![FreeSlot(socks)] =
                           [market |-> market, state |-> "connecting"]],
           intervals |-> simulationIntervals, msgs |-> <<>>]

\* Whether a connect call made now would need a WebSocket slot / counter room.
CanConnect(market, socks) ==
  /\ connectionAttempts[market] < MaxCount
  /\ connectionAttempts[market] < MAX_ATTEMPTS => \E s \in Slots : socks[s].state = "free"

\* ------------------------------------------------------------ actions
FeedInit ==
  /\ clients = [c \in {} |-> {}]
  /\ marketConnections = [m \in Markets |-> NoSocket]
  /\ connectionAttempts = [m \in Markets |-> 0]
  /\ simulationIntervals = {}
  /\ sockets = [s \in Slots |-> FreeSocket]
  /\ notOpen = {}
  /\ sent = <<>>
  /\ lastOp = Op("init", 0, NoMarket, NoSocket, FALSE)

\* wss.on('connection')
ClientConnect(c) ==
  /\ c \notin DOMAIN clients
  /\ clients' = [x \in DOMAIN clients \cup {c} |-> IF x = c THEN {} ELSE clients[x]]
  /\ sent' = <<[to |-> c, type |-> "connection", market |-> NoMarket, source |-> "none"]>>
  /\ lastOp' = Op("ClientConnect", c, NoMarket, NoSocket, FALSE)
  /\ UNCHANGED <<notOpen, nonFeedVars>>
  /\ UNCHANGED <<marketConnections, connectionAttempts, simulationIntervals, sockets>>

\* The socket of a client leaves readyState OPEN (the peer is gone or a close
\* handshake has begun); its 'close' event is still to come.
ClientBreak(c) ==
  /\ c \in DOMAIN clients \ notOpen
  /\ notOpen' = notOpen \cup {c}
  /\ sent' = <<>>
  /\ lastOp' = Op("ClientBreak", c, NoMarket, NoSocket, FALSE)
  /\ UNCHANGED nonFeedVars
  /\ UNCHANGED <<clients, marketConnections, connectionAttempts, simulationIntervals, sockets>>

\* ws.on('close') of a client socket
ClientClose(c) ==
  /\ c \in DOMAIN clients
  /\ clients' = [x \in DOMAIN clients \ {c} |-> clients[x]]
  /\ notOpen' = notOpen \ {c}
  /\ sent' = <<>>
  /\ lastOp' = Op("ClientClose", c, NoMarket, NoSocket, FALSE)
  /\ UNCHANGED nonFeedVars
  /\ UNCHANGED <<marketConnections, connectionAttempts, simulationIntervals, sockets>>

\* the acknowledgement is the last send statement of the handler
Ack(c, market, status) ==
  [to |-> c, type |-> status, market |-> market, source |-> "none", ev |-> 3]

subscribeToMarket(c, market) ==
  /\ c \in DOMAIN clients \ notOpen
  /\ LET cl == [clients EXCEPT ![c] = @ \cup {market}]
     IN /\ clients' = cl
        /\ IF marketConnections[market] = NoSocket
           THEN /\ CanConnect(market, sockets)
                /\ LET r == connectToBinanceWebSocket(cl, market, sockets)
                   IN /\ connectionAttempts' = r.attempts
                      /\ sockets' = r.sockets
                      /\ simulationIntervals' = r.intervals
                      /\ sent' = r.msgs \o <<Ack(c, market, "subscribed")>>
           ELSE /\ sent' = <<Ack(c, market, "subscribed")>>
                /\ UNCHANGED <<connectionAttempts, sockets, simulationIntervals>>
  /\ lastOp' = Op("subscribeToMarket", c, market, NoSocket, FALSE)
  /\ UNCHANGED <<notOpen, nonFeedVars>>
  /\ UNCHANGED marketConnections

\* WebSocket.close() on an upstream socket
CloseSocket(socks, s) ==
  [socks EXCEPT ![s] = IF @.state \in {"connecting", "open"}
                       THEN [@ EXCEPT !.state = "closing"] ELSE @]

unsubscribeFromMarket(c, market) ==
  /\ c \in DOMAIN clients \ notOpen
  /\ LET cl == [clients EXCEPT ![c] = @ \ {market}]
     IN /\ clients' = cl
        /\ IF ~HasSubscribers(cl, market) /\ marketConnections[market] # NoSocket
           THEN /\ sockets' = CloseSocket(sockets, marketConnections[market])
                /\ marketConnections' = [marketConnections EXCEPT ![market] = NoSocket]
           ELSE UNCHANGED <<sockets, marketConnections>>
  /\ sent' = <<Ack(c, market, "unsubscribed")>>
  /\ lastOp' = Op("unsubscribeFromMarket", c, market, NoSocket, FALSE)
  /\ UNCHANGED <<notOpen, nonFeedVars>>
  /\ UNCHANGED <<connectionAttempts, simulationIntervals>>

\* ws.on('open') of an upstream socket
UpstreamOpen(s) ==
  /\ sockets[s].state = "connecting"
  /\ sockets' = [sockets EXCEPT ![s].state = "open"]
  /\ marketConnections' = [marketConnections EXCEPT ![sockets[s].market] = s]
  /\ connectionAttempts' = [connectionAttempts EXCEPT ![sockets[s].market] = 0]
  /\ sent' = <<>>
  /\ lastOp' = Op("UpstreamOpen", 0, sockets[s].market, s, FALSE)
  /\ UNCHANGED <<notOpen, nonFeedVars>>
  /\ UNCHANGED <<clients, simulationIntervals>>

\* ws.on('message') of an upstream socket
UpstreamMessage(s) ==
  /\ sockets[s].state = "open"
  /\ sent' = broadcastToSubscribers(clients, sockets[s].market)
  /\ lastOp' = Op("UpstreamMessage", 0, sockets[s].market, s, FALSE)
  /\ UNCHANGED <<notOpen, nonFeedVars>>
  /\ UNCHANGED <<clients, marketConnections, connectionAttempts, simulationIntervals, sockets>>

\* UpstreamError with the geo-block check lost: the handler only logs.
UpstreamErrorOnlyLogs(s, geo) ==
  /\ sockets[s].state \in {"connecting", "open"}
  /\ geo => sockets[s].state = "connecting"
  /\ sockets' = [sockets EXCEPT ![s].state = "closing"]
  /\ sent' = <<>>
  /\ lastOp' = Op("UpstreamError", 0, sockets[s].market, s, geo)
  /\ UNCHANGED <<notOpen, nonFeedVars>>
  /\ UNCHANGED <<clients, marketConnections, connectionAttempts, simulationIntervals>>

\* ws.on('error') of an upstream socket; geo: the message contains 451, which
\* is the handshake's "Unexpected server response: 451".
UpstreamError(s, geo) ==
  /\ sockets[s].state \in {"connecting", "open"}
  /\ geo => sockets[s].state = "connecting"
  /\ sockets' = [sockets EXCEPT ![s].state = "closing"]
  /\ LET sim == IF geo
                THEN startSimulationForMarket(clients, sockets[s].market, simulationIntervals)
                ELSE [intervals |-> simulationIntervals, msgs |-> <<>>]
     IN /\ simulationIntervals' = sim.intervals
        /\ sent' = sim.msgs
  /\ lastOp' = Op("UpstreamError", 0, sockets[s].market, s, geo)
  /\ UNCHANGED <<notOpen, nonFeedVars>>
  /\ UNCHANGED <<clients, marketConnections, connectionAttempts>>

\* ws.on('close') of an upstream socket: forgets the market's connection and
\* arms the 5 s reconnect timer.
UpstreamClose(s) ==
  /\ sockets[s].state \in {"open", "closing"}
  /\ sockets' = [sockets EXCEPT ![s].state = "timer"]
  /\ marketConnections' = [marketConnections EXCEPT ![sockets[s].market] = NoSocket]
  /\ sent' = <<>>
  /\ lastOp' = Op("UpstreamClose", 0, sockets[s].market, s, FALSE)
  /\ UNCHANGED <<notOpen, nonFeedVars>>
  /\ UNCHANGED <<clients, connectionAttempts, simulationIntervals>>

\* the setTimeout callback of the close handler
ReconnectTimer(s) ==
  /\ sockets[s].state = "timer"
  /\ LET market == sockets[s].market
         socks  == [sockets EXCEPT ![s] = FreeSocket]
     IN IF HasSubscribers(clients, market) /\ connectionAttempts[market] < MAX_ATTEMPTS
        THEN LET r == connectToBinanceWebSocket(clients, market, socks)
             IN /\ connectionAttempts' = r.attempts
                /\ sockets' = r.sockets
                /\ simulationIntervals' = r.intervals
                /\ sent' = r.msgs
        ELSE /\ sockets' = socks
             /\ sent' = <<>>
             /\ UNCHANGED <<connectionAttempts, simulationIntervals>>
  /\ lastOp' = Op("ReconnectTimer", 0, sockets[s].market, s, FALSE)
  /\ UNCHANGED <<notOpen, nonFeedVars>>
  /\ UNCHANGED <<clients, marketConnections>>

\* SimulationTick with the subscriber check lost: the interval is never cleared.
SimulationTickNeverStops(market) ==
  /\ market \in simulationIntervals
  /\ sent' = broadcastSimulatedData(clients, market, 1)
  /\ lastOp' = Op("SimulationTick", 0, market, NoSocket, FALSE)
  /\ UNCHANGED <<notOpen, nonFeedVars>>
  /\ UNCHANGED <<clients, marketConnections, connectionAttempts, simulationIntervals, sockets>>

\* the setInterval callback of startSimulationForMarket
SimulationTick(market) ==
  /\ market \in simulationIntervals
  /\ sent' = broadcastSimulatedData(clients, market, 1)
  /\ simulationIntervals' = IF HasSubscribers(clients, market)
                            THEN simulationIntervals
                            ELSE simulationIntervals \ {market}
  /\ lastOp' = Op("SimulationTick", 0, market, NoSocket, FALSE)
  /\ UNCHANGED <<notOpen, nonFeedVars>>
  /\ UNCHANGED <<clients, marketConnections, connectionAttempts, sockets>>

FeedNext ==
  \/ \E c \in Clients : ClientConnect(c)
  \/ \E c \in Clients : ClientBreak(c)
  \/ \E c \in Clients : ClientClose(c)
  \/ \E c \in Clients, m \in Markets : subscribeToMarket(c, m)
  \/ \E c \in Clients, m \in Markets : unsubscribeFromMarket(c, m)
  \/ \E s \in Slots : UpstreamOpen(s)
  \/ \E s \in Slots : UpstreamMessage(s)
  \/ \E s \in Slots, geo \in BOOLEAN : UpstreamError(s, geo)
  \/ \E s \in Slots : UpstreamClose(s)
  \/ \E s \in Slots : ReconnectTimer(s)
  \/ \E m \in Markets : SimulationTick(m)

\* ------------------------------------------------- order execution
\* exchange.apiKey is set
apiKey == exchange = "withKeys"

Signals == {"BUY", "SELL"}

Undefined == [id |-> "undefined", status |-> "undefined", type |-> "undefined",
              side |-> "undefined", price |-> 0]

NoResult == [order |-> Undefined, stopLossOrder |-> Undefined, takeProfitOrder |-> Undefined]

\* signal.toLowerCase()
SideOf(signal) == IF signal = "BUY" THEN "buy" ELSE "sell"

\* oppositeAction
OppositeAction(signal) == IF signal = "BUY" THEN "sell" ELSE "buy"

\* The ids the exchange gives to the orders it accepts.
ExchangeIds == <<"ex_1", "ex_2", "ex_3", "ex_4", "ex_5", "ex_6">>

Accepted(log) == Len(SelectSeq(log, LAMBDA e : e.ok))

\* A call on the ccxt exchange (loadMarkets, then the order call), logged.
AdapterCall(log, fn, side, ok) ==
  Append(log, [fn |-> fn, side |-> side, ok |-> ok,
               id |-> IF ok THEN ExchangeIds[Accepted(log) + 1] ELSE "undefined"])

\* normalizeOrder of the response of an accepted order
normalizeOrder(log, type, side, status, price) ==
  [id |-> ExchangeIds[Accepted(log) + 1], status |-> status, type |-> type, side |-> side,
   price |-> price]

\* currentPrice * (1 - stopLoss / 100) for BUY, (1 + stopLoss / 100) for SELL
StopPrice(signal, currentPrice, stopLoss) ==
  IF signal = "BUY" THEN (currentPrice * (100 - stopLoss)) \div 100
                    ELSE (currentPrice * (100 + stopLoss)) \div 100

\* currentPrice * (1 + takeProfit / 100) for BUY, (1 - takeProfit / 100) for SELL
LimitPrice(signal, currentPrice, takeProfit) ==
  IF signal = "BUY" THEN (currentPrice * (100 + takeProfit)) \div 100
                    ELSE (currentPrice * (100 - takeProfit)) \div 100

\* The module's createMarketOrder: the real exchange when the key is set and the
\* call does not throw, a simulated closed order otherwise.  price: the fill
\* price of the exchange, or the price its own getMarketPrice call returns.
createMarketOrder(log, side, ok, status, price) ==
  IF apiKey /\ ok
  THEN [order |-> normalizeOrder(log, "market", side, status, price),
        log |-> AdapterCall(log, "createMarketOrder", side, TRUE)]
  ELSE [order |-> [id |-> "sim_market", status |-> "closed", type |-> "market", side |-> side,
                   price |-> price],
        log |-> IF apiKey THEN AdapterCall(log, "createMarketOrder", side, FALSE) ELSE log]

\* The module's createLimitOrder: likewise, the simulated order stays open.
createLimitOrder(log, side, ok, simId, price) ==
  IF apiKey /\ ok
  THEN [order |-> normalizeOrder(log, "limit", side, "open", price),
        log |-> AdapterCall(log, "createLimitOrder", side, TRUE)]
  ELSE [order |-> [id |-> simId, status |-> "open", type |-> "limit", side |-> side,
                   price |-> price],
        log |-> IF apiKey THEN AdapterCall(log, "createLimitOrder", side, FALSE) ELSE log]

TradeInit ==
  /\ exchange = "none"
  /\ tradePc = "idle"
  /\ tradeCall = [signal |-> "BUY", stopLoss |-> 0, takeProfit |-> 0, currentPrice |-> 0]
  /\ adapterLog = <<>>
  /\ mainOrder = Undefined
  /\ stopLossOrder = Undefined
  /\ takeProfitOrder = Undefined
  /\ tradeResult = NoResult

\* getExchange() of the first call: initializeExchange() with the API key and
\* secret of the environment (keys), or without them.
initializeExchange(keys) ==
  /\ exchange = "none"
  /\ exchange' = IF keys THEN "withKeys" ELSE "public"
  /\ UNCHANGED <<tradePc, tradeCall, adapterLog, mainOrder, stopLossOrder,
                 takeProfitOrder, tradeResult>>
  /\ UNCHANGED nonTradeVars

\* return { order: mainOrder, stopLossOrder, takeProfitOrder }
Return(main, sl, tp) ==
  /\ tradePc' = "done"
  /\ tradeResult' = [order |-> main, stopLossOrder |-> sl, takeProfitOrder |-> tp]

\* A call of executeTradeSignal, up to its first await.
executeTradeSignal(signal, stopLoss, takeProfit) ==
  /\ exchange # "none"
  /\ tradePc \in {"idle", "done"}
  /\ tradeCall' = [signal |-> signal, stopLoss |-> stopLoss, takeProfit |-> takeProfit,
                   currentPrice |-> 0]
  /\ tradePc' = IF apiKey THEN "primary" ELSE "simPrimary"
  /\ adapterLog' = <<>>
  /\ mainOrder' = Undefined
  /\ stopLossOrder' = Undefined
  /\ takeProfitOrder' = Undefined
  /\ tradeResult' = NoResult
  /\ UNCHANGED exchange
  /\ UNCHANGED nonTradeVars

\* await exchange.createMarketOrder(symbol, side, amount) of the real path
PrimaryOrder(ok, status, price) ==
  /\ tradePc = "primary"
  /\ adapterLog' = AdapterCall(adapterLog, "createMarketOrder", SideOf(tradeCall.signal), ok)
  /\ IF ~ok
     THEN \* catch: "Falling back to simulated trade execution"
          /\ tradePc' = "simPrimary"
          /\ UNCHANGED <<mainOrder, tradeResult, tradeCall>>
     ELSE LET main == normalizeOrder(adapterLog, "market", SideOf(tradeCall.signal), status,
                                     price)
          IN /\ mainOrder' = main
             \* const currentPrice = mainOrder.price || ...
             /\ tradeCall' = [tradeCall EXCEPT !.currentPrice = price]
             /\ IF status = "closed" /\ tradeCall.stopLoss # 0
                THEN tradePc' = "stopLoss" /\ UNCHANGED tradeResult
                ELSE IF status = "closed" /\ tradeCall.takeProfit # 0
                THEN tradePc' = "takeProfit" /\ UNCHANGED tradeResult
                ELSE Return(main, Undefined, Undefined)
  /\ UNCHANGED <<exchange, stopLossOrder, takeProfitOrder>>
  /\ UNCHANGED nonTradeVars

\* await exchange.createLimitOrder(symbol, oppositeAction, amount, stopPrice)
StopLossOrder(ok) ==
  /\ tradePc = "stopLoss"
  /\ adapterLog' = AdapterCall(adapterLog, "createLimitOrder",
                               OppositeAction(tradeCall.signal), ok)
  /\ IF ~ok
     THEN /\ tradePc' = "simPrimary"
          /\ UNCHANGED <<stopLossOrder, tradeResult>>
     ELSE LET sl == normalizeOrder(adapterLog, "limit", OppositeAction(tradeCall.signal), "open",
                                   StopPrice(tradeCall.signal, tradeCall.currentPrice,
                                             tradeCall.stopLoss))
          IN /\ stopLossOrder' = sl
             /\ IF tradeCall.takeProfit # 0
                THEN tradePc' = "takeProfit" /\ UNCHANGED tradeResult
                ELSE Return(mainOrder, sl, Undefined)
  /\ UNCHANGED <<exchange, tradeCall, mainOrder, takeProfitOrder>>
  /\ UNCHANGED nonTradeVars

\* await exchange.createLimitOrder(symbol, oppositeAction, amount, limitPrice)
TakeProfitOrder(ok) ==
  /\ tradePc = "takeProfit"
  /\ adapterLog' = AdapterCall(adapterLog, "createLimitOrder",
                               OppositeAction(tradeCall.signal), ok)
  /\ IF ~ok
     THEN /\ tradePc' = "simPrimary"
          /\ UNCHANGED <<takeProfitOrder, tradeResult>>
     ELSE LET tp == normalizeOrder(adapterLog, "limit", OppositeAction(tradeCall.signal), "open",
                                   LimitPrice(tradeCall.signal, tradeCall.currentPrice,
                                              tradeCall.takeProfit))
          IN /\ takeProfitOrder' = tp
             /\ Return(mainOrder, stopLossOrder, tp)
  /\ UNCHANGED <<exchange, tradeCall, mainOrder, stopLossOrder>>
  /\ UNCHANGED nonTradeVars

\* "Simulation mode": const { price: currentPrice } = await getMarketPrice(symbol),
\* then await createMarketOrder(symbol, side, amount), which asks getMarketPrice
\* again (price); the locals stopLossOrder and takeProfitOrder of this block
\* start undefined.
SimPrimaryOrder(ok, status, currentPrice, price) ==
  /\ tradePc = "simPrimary"
  /\ apiKey \/ (~ok /\ status = "closed")
  /\ tradeCall' = [tradeCall EXCEPT !.currentPrice = currentPrice]
  /\ LET r == createMarketOrder(adapterLog, SideOf(tradeCall.signal), ok, status, price)
     IN /\ adapterLog' = r.log
        /\ mainOrder' = r.order
        /\ stopLossOrder' = Undefined
        /\ takeProfitOrder' = Undefined
        /\ IF tradeCall.stopLoss # 0
           THEN tradePc' = "simStopLoss" /\ UNCHANGED tradeResult
           ELSE IF tradeCall.takeProfit # 0
           THEN tradePc' = "simTakeProfit" /\ UNCHANGED tradeResult
           ELSE Return(r.order, Undefined, Undefined)
  /\ UNCHANGED exchange
  /\ UNCHANGED nonTradeVars

\* await createLimitOrder(symbol, oppositeAction, amount, stopPrice)
SimStopLossOrder(ok) ==
  /\ tradePc = "simStopLoss"
  /\ apiKey \/ ~ok
  /\ LET r == createLimitOrder(adapterLog, OppositeAction(tradeCall.signal), ok, "sim_stop",
                               StopPrice(tradeCall.signal, tradeCall.currentPrice,
                                         tradeCall.stopLoss))
     IN /\ adapterLog' = r.log
        /\ stopLossOrder' = r.order
        /\ IF tradeCall.takeProfit # 0
           THEN tradePc' = "simTakeProfit" /\ UNCHANGED tradeResult
           ELSE Return(mainOrder, r.order, Undefined)
  /\ UNCHANGED <<exchange, tradeCall, mainOrder, takeProfitOrder>>
  /\ UNCHANGED nonTradeVars

\* await createLimitOrder(symbol, oppositeAction, amount, limitPrice)
SimTakeProfitOrder(ok) ==
  /\ tradePc = "simTakeProfit"
  /\ apiKey \/ ~ok
  /\ LET r == createLimitOrder(adapterLog, OppositeAction(tradeCall.signal), ok, "sim_limit",
                               LimitPrice(tradeCall.signal, tradeCall.currentPrice,
                                          tradeCall.takeProfit))
     IN /\ adapterLog' = r.log
        /\ takeProfitOrder' = r.order
        /\ Return(mainOrder, stopLossOrder, r.order)
  /\ UNCHANGED <<exchange, tradeCall, mainOrder, stopLossOrder>>
  /\ UNCHANGED nonTradeVars

StopLossPcts   == {0, 2}
TakeProfitPcts == {0, 5}
OrderStatuses  == {"closed", "open"}

\* Prices the ticker or the exchange may quote.
Prices == {100, 200}

TradeStep ==
  \/ \E keys \in BOOLEAN : initializeExchange(keys)
  \/ \E sig \in Signals, sl \in StopLossPcts, tp \in TakeProfitPcts :
        executeTradeSignal(sig, sl, tp)
  \/ \E ok \in BOOLEAN, st \in OrderStatuses, price \in Prices : PrimaryOrder(ok, st, price)
  \/ \E ok \in BOOLEAN : StopLossOrder(ok)
  \/ \E ok \in BOOLEAN : TakeProfitOrder(ok)
  \/ \E ok \in BOOLEAN, st \in OrderStatuses, currentPrice \in Prices, price \in Prices :
       SimPrimaryOrder(ok, st, currentPrice, price)
  \/ \E ok \in BOOLEAN : SimStopLossOrder(ok)
  \/ \E ok \in BOOLEAN : SimTakeProfitOrder(ok)

\* ------------------------------------------ simulated candle generator
\* No simulation has been started (the closure does not exist).
NoCandle == [time |-> 0, open |-> 0, high |-> 0, low |-> 0, close |-> 0, volume |-> 0]

Max(a, b) == IF a >= b THEN a ELSE b

Min(a, b) == IF a <= b THEN a ELSE b

Abs(a) == IF a >= 0 THEN a ELSE -a

\* Values of Math.random(), in tenths.
Randoms == {0, 5, 10}

\* (Math.random() - 0.5) * lastCandle.open * 0.002
PriceChange(rand, open) == ((rand - 5) * open * 2) \div 10000

\* 10 + Math.random() * 90
VolumeSteps == {10, 99}

\* Clock seconds (Date.now() / 1000) at which a simulation may start.
StartTimes == {58, 59}

CandleInit == lastCandle = NoCandle

\* startSimulationForMarket: the initial candle, broadcast at once
InitialCandle(now, volume) ==
  /\ lastCandle = NoCandle
  /\ lastCandle' = [time |-> now, open |-> basePrice,
                    high |-> (basePrice * 1005) \div 1000,
                    low |-> (basePrice * 995) \div 1000,
                    close |-> basePrice, volume |-> volume]
  /\ UNCHANGED nonCandleVars

\* The tick with the update of high and low lost.
CandleTickKeepsRange(now, rand, volumeStep) ==
  /\ lastCandle # NoCandle
  /\ now >= lastCandle.time /\ now <= MaxTime
  /\ IF now % SecondsPerMinute = 0
     THEN LET prevClose == lastCandle.close
          IN lastCandle' = [time |-> now, open |-> prevClose, high |-> prevClose,
                            low |-> prevClose, close |-> prevClose, volume |-> 10]
     ELSE LET priceChange == PriceChange(rand, lastCandle.open)
              close == lastCandle.close + priceChange
          IN /\ Abs(close - basePrice) <= MaxDrift
             /\ lastCandle.volume + volumeStep <= MaxVolume
             /\ lastCandle' = [lastCandle EXCEPT !.close = close,
                                                 !.volume = @ + volumeStep,
                                                 !.time = now]
  /\ UNCHANGED nonCandleVars

\* the setInterval callback of startSimulationForMarket: the candle it broadcasts
CandleTick(now, rand, volumeStep) ==
  /\ lastCandle # NoCandle
  /\ now >= lastCandle.time /\ now <= MaxTime
  /\ IF now % SecondsPerMinute = 0
     THEN LET prevClose == lastCandle.close
          IN lastCandle' = [time |-> now, open |-> prevClose, high |-> prevClose,
                            low |-> prevClose, close |-> prevClose, volume |-> 10]
     ELSE LET priceChange == PriceChange(rand, lastCandle.open)
              close == lastCandle.close + priceChange
          IN /\ Abs(close - basePrice) <= MaxDrift
             /\ lastCandle.volume + volumeStep <= MaxVolume
             /\ lastCandle' = [lastCandle EXCEPT !.close = close,
                                                 !.high = Max(@, close),
                                                 !.low = Min(@, close),
                                                 !.volume = @ + volumeStep,
                                                 !.time = now]
  /\ UNCHANGED nonCandleVars

\* clearInterval(interval): the closure and its candle are dropped
ClearCandle ==
  /\ lastCandle # NoCandle
  /\ lastCandle' = NoCandle
  /\ UNCHANGED nonCandleVars

CandleNext ==
  \/ \E now \in StartTimes, volume \in {100, 120} : InitialCandle(now, volume)
  \/ \E now \in 0..MaxTime, rand \in Randoms, volumeStep \in VolumeSteps :
       CandleTick(now, rand, volumeStep)
  \/ ClearCandle

\* ------------------------------------------------------ order calls
\* `sim_${Date.now()}_${...}` of the n-th simulated order
SimId(n) == "sim_" \o ToString(n)

RealId(n) == "ex_" \o ToString(n)

SimIds == {SimId(n) : n \in 1..MaxOrders}

RealIds == {RealId(n) : n \in 1..MaxOrders}

OrderIds == SimIds \cup RealIds

\* orderId.startsWith('sim_')
StartsWithSim(id) == id \in SimIds

NoOrder == [status |-> "none", type |-> "none", side |-> "none"]

Sides == {"buy", "sell"}

\* The orders the real exchange holds.
Booked == {n \in 1..MaxOrders : exchangeOrders[RealId(n)] # NoOrder}

OrderInit ==
  /\ reported = [id \in OrderIds |-> NoOrder]
  /\ simOrders = 0
  /\ exchangeOrders = [id \in RealIds |-> NoOrder]

\* The exchange accepts the order (real = TRUE) or the module makes one up.
NewOrder(real, order) ==
  IF real
  THEN /\ Cardinality(Booked) < MaxOrders
       /\ LET id == RealId(Cardinality(Booked) + 1)
          IN /\ exchangeOrders' = [exchangeOrders EXCEPT ![id] = order]
             /\ reported' = [reported EXCEPT ![id] = order]
       /\ UNCHANGED simOrders
  ELSE /\ simOrders < MaxOrders
       /\ simOrders' = simOrders + 1
       /\ reported' = [reported EXCEPT ![SimId(simOrders + 1)] = order]
       /\ UNCHANGED exchangeOrders

\* export const createMarketOrder; ok: the exchange call does not throw
createMarketOrderCall(side, ok, status) ==
  /\ exchange # "none"
  /\ IF apiKey /\ ok
     THEN NewOrder(TRUE, [status |-> status, type |-> "market", side |-> side])
     ELSE NewOrder(FALSE, [status |-> "closed", type |-> "market", side |-> side])
  /\ UNCHANGED nonOrderVars

\* export const createLimitOrder
createLimitOrderCall(side, ok) ==
  /\ exchange # "none"
  /\ NewOrder(apiKey /\ ok, [status |-> "open", type |-> "limit", side |-> side])
  /\ UNCHANGED nonOrderVars

\* export const cancelOrder; the exchange cancels only an open order it holds
cancelOrder(orderId, ok) ==
  /\ exchange # "none"
  /\ IF apiKey /\ ok
     THEN /\ orderId \in RealIds
          /\ exchangeOrders[orderId].status = "open"
          /\ exchangeOrders' = [exchangeOrders EXCEPT ![orderId].status = "canceled"]
          /\ reported' = [reported EXCEPT ![orderId] = exchangeOrders'[orderId]]
     ELSE /\ reported' = [reported EXCEPT ![orderId] =
                            [status |-> "canceled", type |-> "undefined", side |-> "undefined"]]
          /\ UNCHANGED exchangeOrders
  /\ UNCHANGED simOrders
  /\ UNCHANGED nonOrderVars

\* export const getOrderStatus; fetchOrder answers for an order the exchange holds
getOrderStatus(orderId, ok) ==
  /\ exchange # "none"
  /\ IF apiKey /\ ok
     THEN /\ orderId \in RealIds
          /\ exchangeOrders[orderId] # NoOrder
          /\ reported' = [reported EXCEPT ![orderId] = exchangeOrders[orderId]]
     ELSE IF StartsWithSim(orderId)
          THEN reported' = [reported EXCEPT ![orderId] =
                              [status |-> "open", type |-> "limit", side |-> "buy"]]
          ELSE \* throw new Error(`Order not found: ${orderId}`)
               UNCHANGED reported
  /\ UNCHANGED <<simOrders, exchangeOrders>>
  /\ UNCHANGED nonOrderVars

OrderNext ==
  \/ \E keys \in BOOLEAN : initializeExchange(keys)
  \/ \E side \in Sides, ok \in BOOLEAN, status \in {"closed", "open"} :
       createMarketOrderCall(side, ok, status)
  \/ \E side \in Sides, ok \in BOOLEAN : createLimitOrderCall(side, ok)
  \/ \E orderId \in OrderIds, ok \in BOOLEAN : cancelOrder(orderId, ok)
  \/ \E orderId \in OrderIds, ok \in BOOLEAN : getOrderStatus(orderId, ok)

\* ---------------------------------------- order and signal endpoints
Endpoints == {"order/market", "order/limit", "execute-signal"}

OrderTypes == {"market", "limit"}

NoRequest == [endpoint |-> "none", userId |-> FALSE, orderType |-> "none"]

NoResponse == [status |-> 0, body |-> "none"]

RouteInit ==
  /\ request = NoRequest
  /\ routePc = "idle"
  /\ executed = "none"
  /\ trades = {}
  /\ botLogs = {}
  /\ response = NoResponse

\* res.json(order) / res.status(n).json({ error })
Respond(status, body) ==
  /\ response' = [status |-> status, body |-> body]
  /\ routePc' = "done"

\* app.post(...): the parameter checks, up to the await of the order call.
\* valid: the required parameters are present and the side is buy or sell.
PostRequest(endpoint, userId, orderType, valid) ==
  /\ routePc \in {"idle", "done"}
  /\ endpoint = "order/market" => orderType = "market"
  /\ endpoint = "order/limit" => orderType = "limit"
  /\ request' = [endpoint |-> endpoint, userId |-> userId, orderType |-> orderType]
  /\ executed' = "none"
  /\ IF valid
     THEN routePc' = "order" /\ response' = NoResponse
     ELSE Respond(400, "error")
  /\ UNCHANGED <<trades, botLogs>>
  /\ UNCHANGED nonRouteVars

\* await createMarketOrder / createLimitOrder / executeTradeSignal returns:
\* an order was placed, the call threw, or (executeTradeSignal only) the
\* result carries an order with status error.
OrderCallReturns(outcome) ==
  /\ routePc = "order"
  /\ outcome = "error" => request.endpoint = "execute-signal"
  /\ outcome = "throws" => request.endpoint # "execute-signal"
  /\ IF outcome = "throws"
     THEN Respond(500, "error") /\ UNCHANGED executed
     ELSE /\ executed' = outcome
          /\ IF request.userId
             THEN routePc' = "addTrade" /\ UNCHANGED response
             ELSE Respond(200, "result")
  /\ UNCHANGED <<request, trades, botLogs>>
  /\ UNCHANGED nonRouteVars

\* await storage.addTrade({...}); ok: the storage call resolves
AddTrade(ok) ==
  /\ routePc = "addTrade"
  /\ IF ok
     THEN /\ trades' = trades \cup
                  {[endpoint |-> request.endpoint,
                    status |-> IF request.orderType = "market" THEN "closed" ELSE "open"]}
          /\ IF request.endpoint = "execute-signal"
             THEN routePc' = "addBotLog" /\ UNCHANGED response
             ELSE Respond(200, "result")
     ELSE \* catch (error): res.status(500)
          Respond(500, "error") /\ UNCHANGED trades
  /\ UNCHANGED <<request, executed, botLogs>>
  /\ UNCHANGED nonRouteVars

\* await storage.addBotLog({...}) of the execute-signal endpoint
AddBotLog(ok) ==
  /\ routePc = "addBotLog"
  /\ IF ok
     THEN botLogs' = botLogs \cup {"Signal executed"} /\ Respond(200, "result")
     ELSE Respond(500, "error") /\ UNCHANGED botLogs
  /\ UNCHANGED <<request, executed, trades>>
  /\ UNCHANGED nonRouteVars

RouteNext ==
  \/ \E endpoint \in Endpoints, userId \in BOOLEAN, orderType \in OrderTypes,
        valid \in BOOLEAN : PostRequest(endpoint, userId, orderType, valid)
  \/ \E outcome \in {"placed", "error", "throws"} : OrderCallReturns(outcome)
  \/ \E ok \in BOOLEAN : AddTrade(ok)
  \/ \E ok \in BOOLEAN : AddBotLog(ok)

\* --------------------------------------------------- client transport
TransportMarkets == {"BTC/USDT", "ETH/USDT"}

Callbacks == {"cb1", "cb2"}

BrowserSlots == 1..MaxBrowserSockets

\* A slot holding no WebSocket object that can still fire an event.
NoBrowserSocket == [state |-> "free", byTimer |-> FALSE, subs |-> {}]

TransportInit ==
  /\ socket = NoSocket
  /\ isConnected = FALSE
  /\ reconnectTimer = FALSE
  /\ marketSubscriptions = [m \in {} |-> {}]
  /\ browserSockets = [s \in BrowserSlots |-> NoBrowserSocket]
  /\ outbox = <<>>
  /\ received = {}

\* this.socket?.readyState === WebSocket.OPEN, with the sockets as in socks
SocketIsOpen(sock, socks) == sock # NoSocket /\ socks[sock].state = "open"

\* A closed socket that this.socket no longer refers to is garbage.
Collect(sock, socks) ==
  [s \in BrowserSlots |->
     IF socks[s].state = "closed" /\ s # sock THEN NoBrowserSocket ELSE socks[s]]

\* this.socket.send(JSON.stringify(message)): the server takes note of it
Send(sock, socks, action, markets) ==
  [socks EXCEPT ![sock].subs = IF action = "unsubscribe" THEN @ \ markets
                                                        ELSE @ \cup markets]

Message(sock, action, markets) == [socket |-> sock, action |-> action, markets |-> markets]

\* connect(): resolves at once on an open socket, else this.socket = new
\* WebSocket(this.url).  byTimer: the call is the one of the reconnect timer,
\* whose promise has the catch that schedules the next reconnect.
connect(byTimer) ==
  IF SocketIsOpen(socket, browserSockets)
  THEN UNCHANGED <<socket, browserSockets>>
  ELSE \E s \in BrowserSlots :
         /\ Collect(NoSocket, browserSockets)[s].state = "free"
         /\ \A t \in BrowserSlots :
              Collect(NoSocket, browserSockets)[t].state = "free" => s <= t
         /\ socket' = s
         /\ browserSockets' = [Collect(NoSocket, browserSockets) EXCEPT ![s] =
                                 [state |-> "connecting", byTimer |-> byTimer, subs |-> {}]]

\* public connect(), called by the application
Connect ==
  /\ connect(FALSE)
  /\ outbox' = <<>>
  /\ received' = {}
  /\ UNCHANGED <<isConnected, reconnectTimer, marketSubscriptions>>
  /\ UNCHANGED nonTransportVars

\* scheduleReconnect(): arms the timer unless one is pending
scheduleReconnect == reconnectTimer' = TRUE

\* the callback of the timer of scheduleReconnect
ReconnectTimerFires ==
  /\ reconnectTimer
  /\ reconnectTimer' = FALSE
  /\ connect(TRUE)
  /\ outbox' = <<>>
  /\ received' = {}
  /\ UNCHANGED <<isConnected, marketSubscriptions>>
  /\ UNCHANGED nonTransportVars

\* socket.onopen: isConnected = true, then reconnectSubscriptions()
SocketOpen(s) ==
  /\ browserSockets[s].state = "connecting"
  /\ isConnected' = TRUE
  /\ LET opened  == [browserSockets EXCEPT ![s].state = "open"]
         markets == DOMAIN marketSubscriptions
     IN IF markets # {} /\ SocketIsOpen(socket, opened)
        THEN /\ outbox' = <<Message(socket, "subscribe_multiple", markets)>>
             /\ browserSockets' = Send(socket, opened, "subscribe_multiple", markets)
        ELSE /\ outbox' = <<>>
             /\ browserSockets' = opened
  /\ received' = {}
  /\ UNCHANGED <<socket, reconnectTimer, marketSubscriptions>>
  /\ UNCHANGED nonTransportVars

\* socket.onerror of a connection that fails before it opens (also one closed
\* by disconnect() while connecting): reject(error), which runs the catch of
\* the reconnect timer's connect() call; the close event follows.
SocketError(s) ==
  /\ browserSockets[s].state \in {"connecting", "failing"}
  /\ browserSockets' = [browserSockets EXCEPT ![s].state = "closing"]
  /\ IF browserSockets[s].byTimer THEN scheduleReconnect ELSE UNCHANGED reconnectTimer
  /\ outbox' = <<>>
  /\ received' = {}
  /\ UNCHANGED <<socket, isConnected, marketSubscriptions>>
  /\ UNCHANGED nonTransportVars

\* socket.onclose: isConnected = false, then scheduleReconnect()
SocketClose(s) ==
  /\ browserSockets[s].state \in {"open", "closing"}
  /\ browserSockets' = Collect(socket, [browserSockets EXCEPT ![s] =
                          [state |-> "closed", byTimer |-> FALSE, subs |-> {}]])
  /\ isConnected' = FALSE
  /\ scheduleReconnect
  /\ outbox' = <<>>
  /\ received' = {}
  /\ UNCHANGED <<socket, marketSubscriptions>>
  /\ UNCHANGED nonTransportVars

\* socket.close() as the browser does it
CloseBrowserSocket(sock, socks) ==
  [socks EXCEPT ![sock].state = IF @ = "connecting" THEN "failing"
                                ELSE IF @ = "open" THEN "closing" ELSE @]

\* public disconnect()
disconnect ==
  /\ IF socket # NoSocket
     THEN /\ browserSockets' = Collect(NoSocket, CloseBrowserSocket(socket, browserSockets))
          /\ socket' = NoSocket
          /\ isConnected' = FALSE
          /\ reconnectTimer' = FALSE
     ELSE UNCHANGED <<browserSockets, socket, isConnected, reconnectTimer>>
  /\ outbox' = <<>>
  /\ received' = {}
  /\ UNCHANGED marketSubscriptions
  /\ UNCHANGED nonTransportVars

\* public subscribeToMarket(market, callback) of the transport
TransportSubscribe(market, callback) ==
  /\ IF market \notin DOMAIN marketSubscriptions
     THEN /\ marketSubscriptions' =
               [m \in DOMAIN marketSubscriptions \cup {market} |->
                  IF m = market THEN {callback} ELSE marketSubscriptions[m]]
          /\ IF isConnected /\ SocketIsOpen(socket, browserSockets)
             THEN /\ outbox' = <<Message(socket, "subscribe", {market})>>
                  /\ browserSockets' = Send(socket, browserSockets, "subscribe", {market})
             ELSE outbox' = <<>> /\ UNCHANGED browserSockets
     ELSE /\ marketSubscriptions' = [marketSubscriptions EXCEPT ![market] = @ \cup {callback}]
          /\ outbox' = <<>>
          /\ UNCHANGED browserSockets
  /\ received' = {}
  /\ UNCHANGED <<socket, isConnected, reconnectTimer>>
  /\ UNCHANGED nonTransportVars

\* unsubscribeFromMarket with the key of the market left in the map.
TransportUnsubscribeKeepsKey(market, callback) ==
  /\ IF market \in DOMAIN marketSubscriptions
     THEN marketSubscriptions' = [marketSubscriptions EXCEPT ![market] = @ \ {callback}]
     ELSE UNCHANGED marketSubscriptions
  /\ outbox' = <<>>
  /\ received' = {}
  /\ UNCHANGED <<socket, isConnected, reconnectTimer, browserSockets>>
  /\ UNCHANGED nonTransportVars

\* public unsubscribeFromMarket(market, callback) of the transport
TransportUnsubscribe(market, callback) ==
  /\ IF market \in DOMAIN marketSubscriptions
     THEN LET callbacks == marketSubscriptions[market] \ {callback}
          IN IF callbacks = {}
             THEN /\ marketSubscriptions' =
                       [m \in DOMAIN marketSubscriptions \ {market} |-> marketSubscriptions[m]]
                  /\ IF isConnected /\ SocketIsOpen(socket, browserSockets)
                     THEN /\ outbox' = <<Message(socket, "unsubscribe", {market})>>
                          /\ browserSockets' =
                               Send(socket, browserSockets, "unsubscribe", {market})
                     ELSE outbox' = <<>> /\ UNCHANGED browserSockets
             ELSE /\ marketSubscriptions' = [marketSubscriptions EXCEPT ![market] = callbacks]
                  /\ outbox' = <<>>
                  /\ UNCHANGED browserSockets
     ELSE /\ outbox' = <<>>
          /\ UNCHANGED <<marketSubscriptions, browserSockets>>
  /\ received' = {}
  /\ UNCHANGED <<socket, isConnected, reconnectTimer>>
  /\ UNCHANGED nonTransportVars

\* socket.onmessage with a kline of a market the server has this socket
\* subscribed to: handleMessage calls the callbacks of the market
ServerKline(s, market) ==
  /\ browserSockets[s].state = "open"
  /\ market \in browserSockets[s].subs
  /\ received' = IF market \in DOMAIN marketSubscriptions THEN {market} ELSE {}
  /\ outbox' = <<>>
  /\ UNCHANGED <<socket, isConnected, reconnectTimer, marketSubscriptions, browserSockets>>
  /\ UNCHANGED nonTransportVars

TransportNext ==
  \/ Connect
  \/ ReconnectTimerFires
  \/ \E s \in BrowserSlots : SocketOpen(s)
  \/ \E s \in BrowserSlots : SocketError(s)
  \/ \E s \in BrowserSlots : SocketClose(s)
  \/ disconnect
  \/ \E market \in TransportMarkets, callback \in Callbacks :
       TransportSubscribe(market, callback)
  \/ \E market \in TransportMarkets, callback \in Callbacks :
       TransportUnsubscribe(market, callback)
  \/ \E s \in BrowserSlots, market \in TransportMarkets : ServerKline(s, market)

\* ------------------------------------ client local generator
\* lib/webSocketService.ts: the service that only simulates.  Prices are whole
\* units; Math.random() is a number of tenths.
GeneratorMarkets == {"BTC/USDT", "ETH/USDT"}

RandomTenths == {0, 9}

NoData == [market |-> "none", to |-> {}, open |-> 0, high |-> 0, low |-> 0, close |-> 0]

\* the switch on the base currency of startSimulation
SeedPrice(market) == IF market = "BTC/USDT" THEN 43500 ELSE 2300

GeneratorInit ==
  /\ subscriptions = <<>>
  /\ generators = <<>>
  /\ simulatedData = NoData

\* map.set(key, value) and map.delete(key)
MapSet(map, key, value) ==
  [k \in DOMAIN map \cup {key} |-> IF k = key THEN value ELSE map[k]]

MapDelete(map, key) == [k \in DOMAIN map \ {key} |-> map[k]]

\* startSimulation(market): nothing when the market has an interval, else a
\* new interval whose closure starts from the seed price
startSimulation(intervals, market) ==
  IF market \in DOMAIN intervals
    THEN intervals
    ELSE MapSet(intervals, market, [basePrice |-> SeedPrice(market), ticks |-> 0])

\* a stopSimulation that leaves the interval set
stopSimulationKeepsInterval(intervals, market) == intervals

\* stopSimulation(market): clearInterval and delete
stopSimulation(intervals, market) ==
  IF market \in DOMAIN intervals THEN MapDelete(intervals, market) ELSE intervals

subscribe(market, callback) ==
  /\ LET started == market \notin DOMAIN subscriptions
         callbacks == IF started THEN {} ELSE subscriptions[market]
     IN  /\ generators' = IF started THEN startSimulation(generators, market)
                                     ELSE generators
         /\ subscriptions' = MapSet(subscriptions, market, callbacks \cup {callback})
  /\ UNCHANGED simulatedData
  /\ UNCHANGED nonGeneratorVars

unsubscribe(market, callback) ==
  /\ market \in DOMAIN subscriptions
  /\ LET callbacks == subscriptions[market] \ {callback}
     IN  IF callbacks = {}
           THEN /\ subscriptions' = MapDelete(subscriptions, market)
                /\ generators' = stopSimulation(generators, market)
           ELSE /\ subscriptions' = MapSet(subscriptions, market, callbacks)
                /\ UNCHANGED generators
  /\ UNCHANGED simulatedData
  /\ UNCHANGED nonGeneratorVars

\* the setInterval callback of startSimulation: priceChange is
\* (random - 0.5) * 0.004 and the factors of open, high and low are
\* random * 0.001, each with a random number of its own
GeneratorTick(market, rand, randOpen, randHigh, randLow) ==
  /\ market \in DOMAIN generators
  /\ generators[market].ticks < MaxTicks
  /\ LET newPrice == (generators[market].basePrice * (10000 + (rand - 5) * 4)) \div 10000
     IN  /\ generators' = MapSet(generators, market,
                                 [basePrice |-> newPrice,
                                  ticks |-> generators[market].ticks + 1])
         /\ simulatedData' =
              [market |-> market,
               to     |-> IF market \in DOMAIN subscriptions
                            THEN subscriptions[market] ELSE {},
               open   |-> (newPrice * (10000 - randOpen)) \div 10000,
               high   |-> (newPrice * (10000 + randHigh)) \div 10000,
               low    |-> (newPrice * (10000 - randLow)) \div 10000,
               close  |-> newPrice]
  /\ UNCHANGED subscriptions
  /\ UNCHANGED nonGeneratorVars

\* close(): every interval cleared, both maps emptied
close ==
  /\ generators' = <<>>
  /\ subscriptions' = <<>>
  /\ UNCHANGED simulatedData
  /\ UNCHANGED nonGeneratorVars

GeneratorNext ==
  \/ \E market \in GeneratorMarkets, callback \in Callbacks : subscribe(market, callback)
  \/ \E market \in GeneratorMarkets, callback \in Callbacks : unsubscribe(market, callback)
  \/ \E market \in GeneratorMarkets, rand \in RandomTenths, randOpen \in RandomTenths,
        randHigh \in RandomTenths, randLow \in RandomTenths :
       GeneratorTick(market, rand, randOpen, randHigh, randLow)
  \/ close

\* ------------------------------------------------- specifications
Init ==
  /\ FeedInit /\ TradeInit /\ CandleInit /\ OrderInit /\ RouteInit /\ TransportInit
  /\ GeneratorInit

Next == FeedNext

Spec == Init /\ [][Next]_vars

\* The feed with the timers of the code firing: a reconnect timer that is
\* armed and a simulation interval that is set do fire.  Nothing makes the
\* upstream socket or a client act.
FairSpec ==
  /\ Spec
  /\ WF_vars(\E s \in Slots : ReconnectTimer(s))
  /\ WF_vars(\E market \in Markets : SimulationTick(market))

TradeNext == TradeStep

TradeSpec == Init /\ [][TradeNext]_vars

CandleSpec == Init /\ [][CandleNext]_vars

OrderSpec == Init /\ [][OrderNext]_vars

RouteSpec == Init /\ [][RouteNext]_vars

TransportSpec == Init /\ [][TransportNext]_vars

GeneratorSpec == Init /\ [][GeneratorNext]_vars

\* The transport with its reconnect timer firing, the browser settling every
\* connection attempt (it opens or it fails) and reporting the close of a
\* closing socket, and the server sending klines of the markets a socket is
\* subscribed to.  Nothing makes a connection attempt succeed.
FairTransportSpec ==
  /\ TransportSpec
  /\ WF_vars(ReconnectTimerFires)
  /\ WF_vars(\E s \in BrowserSlots : SocketOpen(s) \/ SocketError(s))
  /\ WF_vars(\E s \in BrowserSlots : browserSockets[s].state = "closing" /\ SocketClose(s))
  /\ \A m \in TransportMarkets : WF_vars(\E s \in BrowserSlots : ServerKline(s, m))
\* ------------------------------------------------- feed properties
SubscriberCount(cl, market) == Cardinality(Subscribers(cl, market))

\* This step created an upstream WebSocket (a connection attempt) for the market.
NewSocketFor(market) ==
  \E s \in Slots : /\ sockets'[s] = [market |-> market, state |-> "connecting"]
                   /\ sockets[s].state # "connecting"

\* This step started the simulation of the market.
SimulationStarted(market) ==
  market \notin simulationIntervals /\ market \in simulationIntervals'

FeedStarts(market) ==
  (IF NewSocketFor(market) THEN 1 ELSE 0) + (IF SimulationStarted(market) THEN 1 ELSE 0)

SubscribeStep(market) ==
  lastOp'.op = "subscribeToMarket" /\ lastOp'.market = market

\* No upstream socket of the market has an event or a timer pending.
Quiescent(market) == \A s \in Slots : sockets[s].market # market

Klines(msgs, market) ==
  SelectSeq(msgs, LAMBDA msg : msg.type = "kline" /\ msg.market = market)

\* C1: a subscriber count going 0 -> 1 starts the market's feed exactly once
\* (one connection attempt or one simulation start), a subscribe at a count of
\* 1 or more starts nothing, and a count going 1 -> 0 tears the feed down (the
\* registered upstream connection is closed and forgotten).
C1_FeedStartsFollowSubscriberCount ==
  [][\A m \in Markets :
       /\ (SubscriberCount(clients, m) = 0 /\ SubscriberCount(clients', m) = 1)
             => FeedStarts(m) = 1
       /\ (SubscriberCount(clients, m) >= 1 /\ SubscribeStep(m)) => FeedStarts(m) = 0
       /\ (SubscriberCount(clients, m) = 1 /\ SubscriberCount(clients', m) = 0)
             => marketConnections'[m] = NoSocket]_vars

\* C2: a market with a subscriber whose connection attempts have used up
\* MAX_ATTEMPTS and all ended (no socket event and no reconnect timer is
\* pending, so nothing more happens without a client message) is in simulation.
C2_ExhaustedRetriesReachSimulation ==
  \A m \in Markets :
    (HasSubscribers(clients, m) /\ Quiescent(m) /\ connectionAttempts[m] >= MAX_ATTEMPTS)
       => m \in simulationIntervals

\* C3: while the simulation of a market runs (and the market keeps a
\* subscriber, so that the feed is not one being torn down and restarted), no
\* step creates a new upstream connection for that market.
C3_NoUpstreamConnectionWhileSimulated ==
  [][\A m \in Markets :
       (/\ m \in simulationIntervals /\ m \in simulationIntervals'
        /\ HasSubscribers(clients, m) /\ HasSubscribers(clients', m))
          => ~NewSocketFor(m)]_vars

\* C6: when a client socket closes, every market it was the last subscriber
\* of has its upstream connection closed and removed from marketConnections.
C6_DisconnectReleasesFeed ==
  [][\A c \in DOMAIN clients :
       c \notin DOMAIN clients' =>
         \A m \in clients[c] :
           ~HasSubscribers(clients', m) => marketConnections'[m] = NoSocket]_vars

\* C7: a kline event is only ever delivered to a client subscribed to its
\* market, so none is delivered for a market nobody is subscribed to; and the
\* first tick of a simulation without subscribers delivers nothing and removes
\* the timer from simulationIntervals.
C7_LastUnsubscribeStopsSimulation ==
  /\ [](\A i \in 1..Len(sent) :
          sent[i].type = "kline" => sent[i].to \in Subscribers(clients, sent[i].market))
  /\ [][\A m \in Markets :
          (~HasSubscribers(clients, m) /\ lastOp'.op = "SimulationTick"
              /\ lastOp'.market = m)
            => (m \notin simulationIntervals' /\ Klines(sent', m) = <<>>)]_vars

\* C7 witness: a simulation tick has just removed the timer of a market that
\* connected clients have all unsubscribed from.
C7_Witness ==
  /\ lastOp.op = "SimulationTick"
  /\ lastOp.market \notin simulationIntervals
  /\ DOMAIN clients # {}
  /\ ~HasSubscribers(clients, lastOp.market)

\* C8: a subscribe that takes a market from zero subscribers makes a real
\* upstream connection attempt, whatever happened to the market before.
C8_ResubscribeStartsFresh ==
  [][\A m \in Markets :
       (SubscriberCount(clients, m) = 0 /\ SubscribeStep(m)) => NewSocketFor(m)]_vars

\* C9: a subscribe by a client already subscribed to the market changes
\* nothing of clients, marketConnections, connectionAttempts,
\* simulationIntervals and the upstream sockets.
C9_RepeatedSubscribeIsNoOp ==
  [][\A m \in Markets :
       (SubscribeStep(m) /\ m \in clients[lastOp'.client])
         => UNCHANGED <<clients, marketConnections, connectionAttempts,
                        simulationIntervals, sockets>>]_vars

\* C10: the error handler of a geo-blocked (451) connection attempt leaves the
\* market in simulation in that same step, whatever the attempt counter, and
\* makes no connection attempt and no change of the counter in it.
C10_GeoBlockGoesStraightToSimulation ==
  [][(lastOp'.op = "UpstreamError" /\ lastOp'.geo)
       => /\ lastOp'.market \in simulationIntervals'
          /\ ~NewSocketFor(lastOp'.market)
          /\ UNCHANGED connectionAttempts]_vars

\* C10 witness: a geo-block error has just started the simulation of a market
\* with a subscriber.
C10_Witness ==
  /\ lastOp.op = "UpstreamError"
  /\ lastOp.geo
  /\ lastOp.market \in simulationIntervals
  /\ \E i \in 1..Len(sent) : sent[i].type = "simulation_started"

\* This step broadcast an event of the market (a simulation tick or an
\* upstream message).
BroadcastStep(market) ==
  lastOp'.op \in {"SimulationTick", "UpstreamMessage"} /\ lastOp'.market = market

Delivered(msgs, c, market) ==
  \E i \in 1..Len(msgs) : msgs[i].to = c /\ msgs[i].market = market /\ msgs[i].type = "kline"

\* C11: when an event is broadcast while the socket of a subscribed client
\* is broken, the other subscribed clients still get the event and the
\* broken client is removed from the subscribers of the market.
C11_SendFailureDisconnectsClient ==
  [][\A m \in Markets :
       BroadcastStep(m) =>
         /\ \A c \in Subscribers(clients, m) \ notOpen : Delivered(sent', c, m)
         /\ \A c \in Subscribers(clients, m) \cap notOpen :
               c \notin Subscribers(clients', m)]_vars

Live(market) == marketConnections[market] # NoSocket

\* msgs tells client c about the feed state of the market.
Notified(msgs, c, market) ==
  \E i \in 1..Len(msgs) : /\ msgs[i].to = c
                           /\ msgs[i].market = market
                           /\ msgs[i].type \notin {"kline", "subscribed", "unsubscribed"}

\* C13: whenever a market becomes live, stops being live or becomes
\* simulated, every open subscriber of the market is sent a notification
\* that is not a kline event.
C13_StateChangesAreNotified ==
  [][\A m \in Markets :
       (Live(m)' # Live(m) \/ (m \notin simulationIntervals /\ m \in simulationIntervals'))
         => \A c \in OpenSubscribers(clients', m) : Notified(sent', c, m)]_vars

\* A connection attempt of the market is pending: its socket has not opened,
\* failed or closed.
Pending(market) ==
  \E s \in Slots : sockets[s].market = market /\ sockets[s].state = "connecting"

KlineSent(market) ==
  \E i \in 1..Len(sent) : sent[i].market = market /\ sent[i].type = "kline"

\* C19: a pending connection attempt of a market with open subscribers does
\* not stay pending for ever: it ends (opened, failed, closed or given up), or
\* the subscribers leave, or kline events are sent for the market.
C19_PendingConnectIsGivenUp ==
  \A m \in Markets :
    (Pending(m) /\ OpenSubscribers(clients, m) # {})
      ~> (~Pending(m) \/ OpenSubscribers(clients, m) = {} \/ KlineSent(m))

\* C20: with no credentials configured, every kline event a subscriber is sent
\* is marked source "simulation", and a client that becomes a subscriber of a
\* market in simulation is sent simulation_started for it.
C20_NoCredentialsMeansSimulation ==
  [][~apiKey =>
       /\ \A i \in 1..Len(sent') :
            sent'[i].type = "kline" => sent'[i].source = "simulation"
       /\ \A m \in Markets, c \in Clients :
            (/\ c \notin Subscribers(clients, m)
             /\ c \in Subscribers(clients', m)
             /\ m \in simulationIntervals')
              => Notified(sent', c, m)]_vars

\* ------------------------------------------------ candle properties
\* C14: every candle the simulated generator emits has its low at or below
\* both open and close and its high at or above both.
C14_SimulatedCandleRange ==
  lastCandle # NoCandle =>
    /\ lastCandle.low <= Min(lastCandle.open, lastCandle.close)
    /\ lastCandle.high >= Max(lastCandle.open, lastCandle.close)

\* A candle opened at a minute boundary whose close then walked above its open
\* and dragged the high along.
C14_Witness ==
  /\ lastCandle.time >= SecondsPerMinute
  /\ lastCandle.close > lastCandle.open
  /\ lastCandle.high = lastCandle.close
  /\ lastCandle.low = lastCandle.open

\* ------------------------------------------------- order properties
\* The first call on the exchange, the primary order of the real path, threw.
PrimaryThrew == Len(adapterLog) >= 1 /\ ~adapterLog[1].ok

\* The primary order was accepted and the stop-loss placement after it threw.
StopLossThrew ==
  /\ Len(adapterLog) >= 2
  /\ adapterLog[1].ok
  /\ adapterLog[2].fn = "createLimitOrder" /\ ~adapterLog[2].ok

\* C4: when the placement of the primary order throws, the call returns no
\* placed order and no stop-loss or take-profit order, and attempts none.
C4_PrimaryFailureIsReported ==
  (tradePc = "done" /\ PrimaryThrew)
    => /\ tradeResult.order.status \notin {"closed", "open"}
       /\ tradeResult.stopLossOrder = Undefined
       /\ tradeResult.takeProfitOrder = Undefined
       /\ \A i \in 1..Len(adapterLog) : adapterLog[i].fn # "createLimitOrder"

\* C5: when the primary order was placed and the stop-loss placement throws,
\* the result holds that primary order (its id) and no stopLossOrder.
C5_StopLossFailureKeepsPrimary ==
  (tradePc = "done" /\ StopLossThrew)
    => /\ tradeResult.order.id = adapterLog[1].id
       /\ tradeResult.stopLossOrder = Undefined

\* The order is one the module made up instead of the exchange.
Simulated(order) == order.id \in {"sim_market", "sim_stop", "sim_limit"}

\* C15: configuration alone decides which exchange serves the orders: with
\* credentials no order of a finished executeTradeSignal is a simulated one,
\* without credentials the exchange's order API was never called.
C15_AdapterFixedByConfiguration ==
  tradePc = "done" =>
    IF apiKey
    THEN /\ ~Simulated(tradeResult.order)
         /\ ~Simulated(tradeResult.stopLossOrder)
         /\ ~Simulated(tradeResult.takeProfitOrder)
    ELSE adapterLog = <<>>

\* C18: against the simulated exchange a buy signal with stop-loss 2% and
\* take-profit 5% whose primary order filled at P returns a sell limit order at
\* P * 0.98 and one at P * 1.05; a sell signal returns buy limit orders at
\* P * 1.02 and P * 0.95.
C18_DependentPricesFollowEntry ==
  (tradePc = "done" /\ ~apiKey /\ tradeCall.stopLoss = 2 /\ tradeCall.takeProfit = 5)
    => LET P == tradeResult.order.price
           sl == tradeResult.stopLossOrder
           tp == tradeResult.takeProfitOrder
       IN /\ sl.type = "limit" /\ tp.type = "limit"
          /\ sl.side = OppositeAction(tradeCall.signal)
          /\ tp.side = OppositeAction(tradeCall.signal)
          /\ sl.price = StopPrice(tradeCall.signal, P, 2)
          /\ tp.price = LimitPrice(tradeCall.signal, P, 5)

\* -------------------------------------------------- order call properties
FinalStatuses == {"closed", "canceled", "error"}

\* C16: once an order id was reported closed, canceled or error, every later
\* report on that id has the same status, type and side.
C16_FinalStatusIsKept ==
  [][\A id \in OrderIds :
       reported[id].status \in FinalStatuses => reported'[id] = reported[id]]_vars

\* ------------------------------------------------ endpoint properties
\* C17: a request whose order or signal was executed is answered with the
\* result, whatever happens to the journal calls that follow.
C17_JournalFailureKeepsResult ==
  (routePc = "done" /\ executed # "none") => response = [status |-> 200, body |-> "result"]

\* ------------------------------------------------ transport properties
\* The markets with at least one registered callback.
WithCallbacks ==
  {m \in TransportMarkets : m \in DOMAIN marketSubscriptions /\ marketSubscriptions[m] # {}}

\* Socket s, the one the transport holds, opens in this step.
Opens(s) ==
  /\ socket = s
  /\ browserSockets[s].state = "connecting"
  /\ browserSockets'[s].state = "open"

\* C21: when the transport's socket opens or reopens, the step sends on it one
\* subscription naming exactly the markets that have a registered callback at
\* that moment, and nothing when there is none.
C21_OpenResubscribesActiveMarkets ==
  [][\A s \in BrowserSlots :
       Opens(s) =>
         outbox' = IF WithCallbacks = {}
                   THEN <<>>
                   ELSE <<Message(s, "subscribe_multiple", WithCallbacks)>>]_vars

\* A socket made by the reconnect timer has opened and the subscription sent
\* on it names one market of the two: the other has no callback any more.
C21_Witness ==
  /\ socket # NoSocket
  /\ browserSockets[socket].state = "open"
  /\ browserSockets[socket].byTimer
  /\ outbox = <<Message(socket, "subscribe_multiple", {"ETH/USDT"})>>

\* C22: once the socket has closed and a reconnect is scheduled, a market with
\* a registered callback does get data: from the live socket, or from the local
\* generator the transport falls back to after a bounded number of attempts.
C22_ReconnectEndsInData ==
  \A m \in TransportMarkets :
    (reconnectTimer /\ m \in WithCallbacks) ~> (m \in received \/ m \notin WithCallbacks)
\* C23: in local-simulation mode the generator of a market runs exactly while
\* the market has a callback: removing the last callback of a market clears
\* its interval, removing one of several leaves the interval and its price
\* alone, the first subscribe of a market starts an interval at the seed
\* price of the market, and every tick calls at least one callback.
C23_GeneratorFollowsCallbacks ==
  [][\A m \in GeneratorMarkets :
       /\ DOMAIN generators' = DOMAIN subscriptions'
       /\ (m \in DOMAIN subscriptions /\ m \notin DOMAIN subscriptions')
            => m \notin DOMAIN generators'
       /\ (m \in DOMAIN subscriptions /\ m \in DOMAIN subscriptions'
             /\ subscriptions'[m] # subscriptions[m])
            => (m \in DOMAIN generators /\ m \in DOMAIN generators'
                /\ generators'[m] = generators[m])
       /\ (m \notin DOMAIN subscriptions /\ m \in DOMAIN subscriptions')
            => generators'[m] = [basePrice |-> SeedPrice(m), ticks |-> 0]
       /\ (simulatedData' # simulatedData /\ simulatedData'.market = m)
            => (m \in DOMAIN subscriptions /\ simulatedData'.to = subscriptions[m]
                /\ simulatedData'.to # {})]_vars

\* A market whose generator had moved off the seed price was unsubscribed and
\* subscribed again: its generator is back at the seed with no tick made.
C23_Witness ==
  /\ simulatedData.market = "BTC/USDT"
  /\ simulatedData.close # SeedPrice("BTC/USDT")
  /\ "BTC/USDT" \in DOMAIN generators
  /\ generators["BTC/USDT"] = [basePrice |-> SeedPrice("BTC/USDT"), ticks |-> 0]

\* C27: every candle of the client's local generator has its low at or below
\* its open and close and its high at or above them.
C27_GeneratedCandleKeepsRange ==
  simulatedData # NoData =>
    /\ simulatedData.low <= Min(simulatedData.open, simulatedData.close)
    /\ simulatedData.high >= Max(simulatedData.open, simulatedData.close)

\* An upstream socket of the market is open and delivers exchange events.
UpstreamOpenFor(market) ==
  \E s \in Slots : sockets[s].market = market /\ sockets[s].state = "open"

\* C24: no market has at the same time an open upstream connection and a
\* running simulation interval.
C24_OneSourcePerMarket ==
  \A m \in Markets : ~(UpstreamOpenFor(m) /\ m \in simulationIntervals)

\* The upstream WebSocket objects of the market that are pending or open.
UpstreamsOf(market) ==
  {s \in Slots : sockets[s].market = market /\ sockets[s].state \in {"connecting", "open"}}

\* C25: a market has at most one upstream connection, pending or open, and
\* an open one is the connection marketConnections holds for the market.
C25_OneUpstreamPerMarket ==
  \A m \in Markets :
    /\ Cardinality(UpstreamsOf(m)) <= 1
    /\ \A s \in Slots : (sockets[s].market = m /\ sockets[s].state = "open")
                           => marketConnections[m] = s

\* C26: a connection attempt that was pending when the last subscriber of
\* its market unsubscribed does not, as the next thing that happens, open and
\* get registered in marketConnections for the market without subscribers.
C26_PendingAttemptIsCancelled ==
  [][\A m \in Markets, s \in Slots :
       (/\ lastOp.op = "unsubscribeFromMarket" /\ lastOp.market = m
        /\ ~HasSubscribers(clients, m)
        /\ sockets[s].market = m /\ sockets[s].state = "connecting")
         => ~(/\ sockets'[s].state = "open"
              /\ marketConnections'[m] = s
              /\ ~HasSubscribers(clients', m))]_vars

\* C28: in the simulated stream of the server the time of the candle changes
\* only at a candle boundary, where the new candle opens at the close of the
\* previous emission; a tick that is not at a boundary leaves the time as it
\* is and does not lower the volume.
C28_TimeChangesOnlyAtBoundary ==
  [][(lastCandle # NoCandle /\ lastCandle' # NoCandle) =>
       /\ lastCandle'.time # lastCandle.time
            => (/\ lastCandle'.time % SecondsPerMinute = 0
                /\ lastCandle'.open = lastCandle.close)
       /\ lastCandle'.time % SecondsPerMinute # 0
            => (/\ lastCandle'.time = lastCandle.time
                /\ lastCandle'.volume >= lastCandle.volume)]_vars

\* C29: while the request handled is an execute-signal whose result carries
\* an order with status error, no step adds a trade to the journal or a
\* "Signal executed" entry to the bot log.
C29_FailedSignalIsNotJournaled ==
  [][(request.endpoint = "execute-signal" /\ executed = "error")
       => (trades' = trades /\ botLogs' = botLogs)]_vars

\* C30: while the transport holds no socket (disconnect() was called and
\* connect() has not been called since) no reconnect timer is pending, and
\* the socket that ends such a time is never one made by the reconnect timer.
C30_DisconnectStaysDisconnected ==
  [][/\ socket' = NoSocket => ~reconnectTimer'
     /\ (socket = NoSocket /\ socket' # NoSocket) => ~browserSockets'[socket'].byTimer]_vars

====
